---- MODULE Spec2Model ----
(***************************************************************************)
(* Model of the CData MCP gateway (StreamableMCPGateway, gateway.ts) and   *)
(* of the express wiring in index.ts.                                      *)
(*                                                                         *)
(* The gateway multiplexes HTTP clients onto spawned stdio processes.      *)
(* Node runs it on one thread: every handler below is one macrotask (an    *)
(* HTTP request, a stdout 'data' event, a timer, a process event), except  *)
(* for the one microtask boundary inside the two HTTP entry points         *)
(* (await this.createSession), which is kept as a separate step.           *)
(***************************************************************************)
EXTENDS Integers, Sequences, FiniteSets

VARIABLES
  sessions,     \* this.sessions: session id -> index of a Session object, 0 = absent
  heap,         \* every Session object created so far (createSession), by index
  posts,        \* every POST /mcp forwarded to a backend so far
  conns,        \* every GET /mcp response attached as a sink so far
  timers,       \* the armed setTimeout callbacks, in registration order
  suspended,    \* the handler waiting at await this.createSession(...), if any
  closed,       \* TRUE once the SIGINT handler ran close() and process.exit(0)
  nEvents,      \* number of events the event loop has delivered so far
  \* What the latest step wrote to the outside, in order (empty if nothing):
  responses,    \* HTTP responses (res.json / res.status(..).json)
  written,      \* messages handed to process.stdin.write
  dispatched,   \* messages handed to handleStdioMessage, with the Session
  pushed,       \* frames written to SSE responses
  \* The decoder specification only:
  feedInput,    \* stdout bytes not delivered yet
  feedDocs,     \* the lines the backend printed
  feedOut       \* every message dispatched so far

vars == <<sessions, heap, posts, conns, timers, suspended, closed, nEvents,
          responses, written, dispatched, pushed, feedInput, feedDocs, feedOut>>

----------------------------------------------------------------------------
(* Bounds of the model                                                     *)

MaxEvents == 4        \* events (requests, stdout data, timers, process events) per run
MaxDocs == 2          \* decoder specification: lines the backend prints per run

----------------------------------------------------------------------------
(* Bytes, strings and JSON documents                                       *)
(*                                                                         *)
(* A Buffer is a sequence of bytes, a string a sequence of characters.     *)
(* ASCII bytes and their characters share a name.  "C3" "A9" is the UTF-8  *)
(* encoding of the one character "U+E9" (e with acute); "U+FFFD" is the    *)
(* replacement character a decoder emits for a malformed sequence.         *)

NL == "\n"
SP == " "
Digits == {"1", "2"}
AsciiBytes == {NL, SP, "{", "}", "x"} \cup Digits
Bytes == AsciiBytes \cup {"C3", "A9"}

\* The request identifiers of the model; NoId stands for an undefined id.
NoId == 0
Ids == {1, 2}
DefaultSessionId == "default-session"
SessionIds == {DefaultSessionId, "s1"}
NoSessionId == ""

RECURSIVE BufferToString(_)
\* Buffer.prototype.toString(): UTF-8 decoding of ONE chunk.  A lead byte
\* without its continuation byte, and a continuation byte without its lead
\* byte, each decode to U+FFFD.
BufferToString(b) ==
  IF b = <<>> THEN <<>>
  ELSE IF Head(b) = "C3"
       THEN IF Len(b) >= 2 /\ b[2] = "A9"
            THEN <<"U+E9">> \o BufferToString(SubSeq(b, 3, Len(b)))
            ELSE <<"U+FFFD">> \o BufferToString(Tail(b))
       ELSE IF Head(b) = "A9"
            THEN <<"U+FFFD">> \o BufferToString(Tail(b))
            ELSE <<Head(b)>> \o BufferToString(Tail(b))

RECURSIVE Split(_)
\* String.prototype.split('\n'): the pieces between newlines; always at
\* least one piece, the last being what follows the last newline.
Split(str) ==
  IF \A i \in 1..Len(str) : str[i] # NL
  THEN <<str>>
  ELSE LET i == CHOOSE k \in 1..Len(str) :
                  str[k] = NL /\ \A j \in 1..(k - 1) : str[j] # NL
       IN <<SubSeq(str, 1, i - 1)>> \o Split(SubSeq(str, i + 1, Len(str)))

RECURSIVE Trim(_)
\* String.prototype.trim()
Trim(str) ==
  IF str = <<>> THEN <<>>
  ELSE IF Head(str) = SP THEN Trim(Tail(str))
  ELSE IF str[Len(str)] = SP THEN Trim(SubSeq(str, 1, Len(str) - 1))
  ELSE str

\* Removing the insignificant whitespace between the tokens of a document.
Squeeze(str) == SelectSeq(str, LAMBDA c : c # SP)

\* The characters that may stand between the braces of a document.
MemberChars == Digits \cup {"x", "U+E9", "U+FFFD", SP}

\* Whether JSON.parse(line) returns (TRUE) or throws a SyntaxError (FALSE).
\* A document is an object: "{", members, "}", with optional whitespace
\* around it and between its tokens.
CanParse(line) ==
  LET t == Trim(line)
  IN /\ Len(t) >= 2
     /\ t[1] = "{"
     /\ t[Len(t)] = "}"
     /\ \A i \in 2..(Len(t) - 1) : t[i] \in MemberChars

\* JSON.parse(line) as JSONRPCMessage: the members without whitespace, and
\* the id member, which is the leading digit when the members start with one.
JSONParse(line) ==
  LET t == Trim(line)
      members == Squeeze(SubSeq(t, 2, Len(t) - 1))
  IN [id |-> IF members # <<>> /\ members[1] = "1" THEN 1
             ELSE IF members # <<>> /\ members[1] = "2" THEN 2
             ELSE NoId,
      members |-> members]

----------------------------------------------------------------------------
(* Records                                                                 *)

\* error.code of every envelope the gateway synthesises.
InternalError == -32603

\* const session: Session = {...}, with the state of the process it owns
\* (proc, errored, killed).  pendingRequests maps an id to the post whose
\* resolve function is stored under it, 0 when the Map has no such key;
\* sseResponse is the attached connection, 0 when undefined.
NewSession(sessionId) ==
  [id |-> sessionId,
   messageBuffer |-> <<>>,
   sseResponse |-> 0,
   pendingRequests |-> [i \in Ids |-> 0],
   connected |-> FALSE,
   proc |-> "running",
   errored |-> FALSE,
   killed |-> FALSE]

\* A forwarded POST: its Session, its id, whether its responsePromise is
\* still pending, its timer, how often its HTTP response was written and
\* what resolved it.
NewPost(s, id, method) ==
  [session |-> s, id |-> id, method |-> method, pc |-> "waiting",
   timer |-> "armed", writes |-> 0, by |-> "none"]

\* An attached GET /mcp.
NewConn(s) == [session |-> s, pc |-> "open"]

\* HTTP response bodies.
\* res.json(response) with the backend's message
ReplyBody(m) ==
  [kind |-> "reply", id |-> m.id, code |-> 0, text |-> "", members |-> m.members]
\* { jsonrpc, id, error: { code: -32603, message } }
ErrorBody(id, text) ==
  [kind |-> "error", id |-> id, code |-> InternalError, text |-> text, members |-> <<>>]
\* { jsonrpc, id, result: ... } of the two intercepted methods
ResultBody(id, text) ==
  [kind |-> "result", id |-> id, code |-> 0, text |-> text, members |-> <<>>]
\* res.status(202).json({})
EmptyBody == [kind |-> "empty", id |-> NoId, code |-> 0, text |-> "{}", members |-> <<>>]
\* { error: 'Failed to create session' } of handleSSE
PlainErrorBody(text) ==
  [kind |-> "plain", id |-> NoId, code |-> 0, text |-> text, members |-> <<>>]

\* The message of an entry of dispatched.
MessageOf(d) == [id |-> d.id, members |-> d.members]

\* SSE frames: ':ok\n\n' and `data: ${JSON.stringify(message)}\n\n`
OkFrame == [kind |-> "ok", id |-> NoId, members |-> <<>>]
DataFrame(m) == [kind |-> "data", id |-> m.id, members |-> m.members]

Methods == {"tools/list", "logging/setLevel", "resources/list"}

----------------------------------------------------------------------------
(* Session id of a request                                                 *)

\* req.query.sessionId || req.headers['x-session-id'] || req.body.sessionId,
\* else this.defaultSessionId ("" and undefined are both falsy).
MessageSessionId(query, header, body) ==
  IF query # NoSessionId THEN query
  ELSE IF header # NoSessionId THEN header
  ELSE IF body # NoSessionId THEN body
  ELSE DefaultSessionId

\* req.query.sessionId || req.headers['x-session-id'], else the default.
SSESessionId(query, header) ==
  IF query # NoSessionId THEN query
  ELSE IF header # NoSessionId THEN header
  ELSE DefaultSessionId

----------------------------------------------------------------------------
(* Handlers are operators on a world w: the gateway's state together with  *)
(* what the running handler has written so far.                            *)

Now ==
  [sessions |-> sessions, heap |-> heap, posts |-> posts, conns |-> conns,
   timers |-> timers,
   responses |-> <<>>, written |-> <<>>, dispatched |-> <<>>, pushed |-> <<>>]

Commit(w) ==
  /\ sessions' = w.sessions
  /\ heap' = w.heap
  /\ posts' = w.posts
  /\ conns' = w.conns
  /\ timers' = w.timers
  /\ responses' = w.responses
  /\ written' = w.written
  /\ dispatched' = w.dispatched
  /\ pushed' = w.pushed

\* res.status(status).json(body) of a handler that answers by itself
\* (post = 0), or of the continuation of post p's await.
\* sid, id and method are those of the request answered.
Respond(w, verb, p, sid, id, method, status, body) ==
  [w EXCEPT !.responses = Append(@, [verb |-> verb, post |-> p, sid |-> sid,
                                     id |-> id, method |-> method,
                                     status |-> status, body |-> body])]

\* resolve(response) of post p's responsePromise, followed by the
\* continuation res.json(response).  A promise settles once: resolving a
\* settled promise does nothing.
Resolve(w, p, body) ==
  IF w.posts[p].pc = "waiting"
  THEN Respond([w EXCEPT !.posts[p].pc = "done", !.posts[p].by = body.kind,
                         !.posts[p].writes = @ + 1],
               "POST", p, w.heap[w.posts[p].session].id, w.posts[p].id,
               w.posts[p].method, 200, body)
  ELSE w

----------------------------------------------------------------------------
(* The correlator and the frame decoder                                    *)

\* A correlator that hands a reply to any waiting caller, whatever its id.
MatchKeyAnyPending(h, s, m) ==
  IF m.id # NoId /\ \E k \in Ids : h[s].pendingRequests[k] # 0
  THEN CHOOSE k \in Ids : h[s].pendingRequests[k] # 0
  ELSE NoId

\* The key of session.pendingRequests a backend message is found under:
\* message.id !== undefined && session.pendingRequests.has(message.id)
MatchKey(h, s, m) ==
  IF m.id # NoId /\ h[s].pendingRequests[m.id] # 0 THEN m.id ELSE NoId

\* session.sseResponse.write(sseData), when a sink is attached.
SseWrite(w, s, m) ==
  IF w.heap[s].sseResponse # 0
  THEN [w EXCEPT !.pushed = Append(@, [conn |-> w.heap[s].sseResponse,
                                       frame |-> DataFrame(m)])]
  ELSE w

\* A dispatch that writes to the sink only the messages that resolved no
\* caller.
HandleStdioMessageEither(w, s, m) ==
  LET k == MatchKey(w.heap, s, m)
      w0 == [w EXCEPT !.dispatched = Append(@, [session |-> s, id |-> m.id,
                                                members |-> m.members])]
  IN IF k # NoId
     THEN Resolve([w0 EXCEPT !.heap[s].pendingRequests[k] = 0],
                  w0.heap[s].pendingRequests[k], ReplyBody(m))
     ELSE SseWrite(w0, s, m)

\* handleStdioMessage: the resolver stored under the message's id, if any,
\* is removed and called; then the message is written to the sink, if any.
HandleStdioMessage(w, s, m) ==
  LET k == MatchKey(w.heap, s, m)
      w0 == [w EXCEPT !.dispatched = Append(@, [session |-> s, id |-> m.id,
                                                members |-> m.members])]
      w1 == IF k # NoId
            THEN Resolve([w0 EXCEPT !.heap[s].pendingRequests[k] = 0],
                         w0.heap[s].pendingRequests[k], ReplyBody(m))
            ELSE w0
  IN SseWrite(w1, s, m)

RECURSIVE HandleLinesAbort(_, _, _)
\* A loop inside one try block: the first malformed line ends it.
HandleLinesAbort(w, s, lines) ==
  IF lines = <<>> THEN w
  ELSE LET line == Head(lines)
       IN IF Trim(line) = <<>> THEN HandleLinesAbort(w, s, Tail(lines))
          ELSE IF CanParse(line)
               THEN HandleLinesAbort(HandleStdioMessage(w, s, JSONParse(line)),
                                     s, Tail(lines))
               ELSE w

RECURSIVE HandleLines(_, _, _)
\* for (const line of lines) { if (line.trim()) { try { parse, dispatch }
\* catch { log } } }
HandleLines(w, s, lines) ==
  IF lines = <<>> THEN w
  ELSE LET line == Head(lines)
           w1 == IF Trim(line) # <<>> /\ CanParse(line)
                 THEN HandleStdioMessage(w, s, JSONParse(line))
                 ELSE w
       IN HandleLines(w1, s, Tail(lines))

HandleStdioData(w, s, data) ==
  LET str == w.heap[s].messageBuffer \o BufferToString(data)
      lines == Split(str)
      w1 == [w EXCEPT !.heap[s].messageBuffer = lines[Len(lines)]]
  IN HandleLines(w1, s, SubSeq(lines, 1, Len(lines) - 1))

\* session.process.stdin.write(JSON.stringify(message) + '\n', callback): a
\* failed write is only logged.  The entry records whether the Session's
\* pending table held the message's id when the write was made.
SendToStdio(w, s, id, method) ==
  [w EXCEPT !.written =
     Append(@, [session |-> s, id |-> id, method |-> method,
                registered |-> IF id = NoId THEN FALSE
                               ELSE w.heap[s].pendingRequests[id] # 0])]

\* A timer that deletes its id from the pending table of every Session.
TimeoutCallbackAnySession(w, p) ==
  LET id == w.posts[p].id
  IN Resolve([w EXCEPT !.heap = [t \in 1..Len(w.heap) |->
                                   [w.heap[t] EXCEPT !.pendingRequests[id] = 0]]],
             p, ErrorBody(id, "Request timeout"))

\* The setTimeout callback of post p.  It tests and deletes by id, and
\* calls the resolve function of its own promise.
TimeoutCallback(w, p) ==
  LET s == w.posts[p].session
      id == w.posts[p].id
  IN IF w.heap[s].pendingRequests[id] # 0
     THEN Resolve([w EXCEPT !.heap[s].pendingRequests[id] = 0], p,
                  ErrorBody(id, "Request timeout"))
     ELSE w

----------------------------------------------------------------------------
(* Session creation                                                        *)

\* createSession when spawn returns a child: the Session is built, marked
\* connected and stored (this.sessions.set) before the promise resolves.
CreateSession(w, sessionId) ==
  [w EXCEPT !.heap = Append(@, [NewSession(sessionId) EXCEPT !.connected = TRUE]),
            !.sessions[sessionId] = Len(w.heap) + 1]

\* createSession when spawn throws: the error is rethrown before a Session
\* is built; nothing is registered.
CreateSessionThrows(w, sessionId) == w

\* No handler is between createSession's return and its own continuation
\* (await this.createSession(...)).  Only process.nextTick callbacks and
\* promise continuations run before that continuation; HTTP requests,
\* stdout data, timers, 'exit' events and signals are macrotasks and wait.
NotSuspended ==
  [kind |-> "none", sid |-> NoSessionId, session |-> 0, id |-> NoId, method |-> ""]

\* The event loop delivers one more event.
Running == ~closed /\ nEvents < MaxEvents
Tick == nEvents' = nEvents + 1

Idle == Running /\ suspended = NotSuspended

----------------------------------------------------------------------------
(* handleMessage                                                           *)

\* Whether the message is answered by the gateway itself.
Intercepted(id, method) ==
  id # NoId /\ method \in {"logging/setLevel", "resources/list"}

InterceptResult(method) ==
  IF method = "logging/setLevel" THEN "{}" ELSE "{resources:[]}"

\* Whether the message registers a pending entry.
Forwarded(id, method) == id # NoId /\ ~Intercepted(id, method)

\* A handler that acknowledges a notification with res.json({}), status 200.
ProcessMessageAck200(w, s, id, method) ==
  IF id # NoId
  THEN IF Intercepted(id, method)
       THEN Respond(w, "POST", 0, w.heap[s].id, id, method, 200,
                    ResultBody(id, InterceptResult(method)))
       ELSE LET p == Len(w.posts) + 1
                w1 == [w EXCEPT !.posts = Append(@, NewPost(s, id, method)),
                                !.heap[s].pendingRequests[id] = p]
                w2 == SendToStdio(w1, s, id, method)
            IN [w2 EXCEPT !.timers = Append(@, p)]
  ELSE Respond(SendToStdio(w, s, id, method), "POST", 0, w.heap[s].id, id, method,
               200, EmptyBody)

\* A handler that writes the request to stdin before it registers the
\* resolver.
ProcessMessageSendFirst(w, s, id, method) ==
  IF id # NoId
  THEN IF Intercepted(id, method)
       THEN Respond(w, "POST", 0, w.heap[s].id, id, method, 200,
                    ResultBody(id, InterceptResult(method)))
       ELSE LET p == Len(w.posts) + 1
                w1 == SendToStdio(w, s, id, method)
                w2 == [w1 EXCEPT !.posts = Append(@, NewPost(s, id, method)),
                                 !.heap[s].pendingRequests[id] = p]
            IN [w2 EXCEPT !.timers = Append(@, p)]
  ELSE Respond(SendToStdio(w, s, id, method), "POST", 0, w.heap[s].id, id, method,
               202, EmptyBody)

\* The try block of handleMessage, for a message and its Session s.
ProcessMessage(w, s, id, method) ==
  IF id # NoId
  THEN IF Intercepted(id, method)
       THEN Respond(w, "POST", 0, w.heap[s].id, id, method, 200,
                    ResultBody(id, InterceptResult(method)))
       ELSE \* pendingRequests.set, then sendToStdio, then setTimeout
            LET p == Len(w.posts) + 1
                w1 == [w EXCEPT !.posts = Append(@, NewPost(s, id, method)),
                                !.heap[s].pendingRequests[id] = p]
                w2 == SendToStdio(w1, s, id, method)
            IN [w2 EXCEPT !.timers = Append(@, p)]
  ELSE Respond(SendToStdio(w, s, id, method), "POST", 0, w.heap[s].id, id, method,
               202, EmptyBody)

\* The lookup that decides whether handleMessage creates a Session:
\* !session || !session.connected
NeedsSession(h, store, sessionId) ==
  IF store[sessionId] = 0 THEN TRUE ELSE ~h[store[sessionId]].connected

HandleMessage(query, header, body, id, method) ==
  LET sessionId == MessageSessionId(query, header, body)
  IN
  /\ Idle
  /\ \/ \* a connected Session is stored: the handler runs to its end or
        \* to await responsePromise
        /\ ~NeedsSession(heap, sessions, sessionId)
        /\ Commit(ProcessMessage(Now, sessions[sessionId], id, method))
        /\ UNCHANGED suspended
     \/ \* createSession succeeds; the handler suspends at the await
        /\ NeedsSession(heap, sessions, sessionId)
        /\ Commit(CreateSession(Now, sessionId))
        /\ suspended' = [kind |-> "post", sid |-> sessionId,
                         session |-> Len(heap) + 1, id |-> id, method |-> method]
     \/ \* createSession throws: 500 'Failed to create session'
        /\ NeedsSession(heap, sessions, sessionId)
        /\ Commit(Respond(CreateSessionThrows(Now, sessionId), "POST", 0, sessionId,
                          id, method, 500, ErrorBody(NoId, "Failed to create session")))
        /\ UNCHANGED suspended
  /\ Tick /\ UNCHANGED <<closed, feedInput, feedDocs, feedOut>>

\* The continuation after await this.createSession(sessionId):
\* this.sessions.set(sessionId, session), then the try block.
ResumeMessage ==
  /\ ~closed
  /\ suspended.kind = "post"
  /\ Commit(ProcessMessage([Now EXCEPT !.sessions[suspended.sid] = suspended.session],
                           suspended.session, suspended.id, suspended.method))
  /\ suspended' = NotSuspended
  /\ UNCHANGED <<closed, nEvents, feedInput, feedDocs, feedOut>>

\* The oldest armed timer fires (every timer has the same delay, so they
\* fire in registration order).
RequestTimeout ==
  /\ Idle
  /\ timers # <<>>
  /\ LET p == Head(timers)
         w == TimeoutCallback(Now, p)
     IN Commit([w EXCEPT !.posts[p].timer = "fired", !.timers = Tail(@)])
  /\ Tick /\ UNCHANGED <<suspended, closed, feedInput, feedDocs, feedOut>>

----------------------------------------------------------------------------
(* handleSSE                                                               *)

\* session.sseResponse = res; res.write(':ok\n\n'); req.on('close', ...)
Attach(w, s) ==
  LET c == Len(w.conns) + 1
  IN [w EXCEPT !.conns = Append(@, NewConn(s)),
               !.heap[s].sseResponse = c,
               !.pushed = Append(@, [conn |-> c, frame |-> OkFrame])]

\* A close handler that clears the sink without comparing it with its own
\* response.
DetachUnguarded(w, c) == [w EXCEPT !.heap[w.conns[c].session].sseResponse = 0]

\* The close handler of connection c: the sink is cleared only when it is
\* still this connection's response.
Detach(w, c) ==
  LET s == w.conns[c].session
  IN IF w.heap[s].sseResponse = c THEN [w EXCEPT !.heap[s].sseResponse = 0] ELSE w

HandleSSE(query, header) ==
  LET sessionId == SSESessionId(query, header)
  IN
  /\ Idle
  /\ \/ \* a Session is stored (connected or not): attach at once
        /\ sessions[sessionId] # 0
        /\ Commit(Attach(Now, sessions[sessionId]))
        /\ UNCHANGED suspended
     \/ \* createSession succeeds; the handler suspends at the await
        /\ sessions[sessionId] = 0
        /\ Commit(CreateSession(Now, sessionId))
        /\ suspended' = [kind |-> "sse", sid |-> sessionId,
                         session |-> Len(heap) + 1, id |-> NoId, method |-> ""]
     \/ \* createSession throws: 500 { error: 'Failed to create session' }
        /\ sessions[sessionId] = 0
        /\ Commit(Respond(CreateSessionThrows(Now, sessionId), "GET", 0, sessionId,
                          NoId, "", 500, PlainErrorBody("Failed to create session")))
        /\ UNCHANGED suspended
  /\ Tick /\ UNCHANGED <<closed, feedInput, feedDocs, feedOut>>

\* The continuation after await this.createSession(sessionId).
ResumeSSE ==
  /\ ~closed
  /\ suspended.kind = "sse"
  /\ Commit(Attach([Now EXCEPT !.sessions[suspended.sid] = suspended.session],
                   suspended.session))
  /\ suspended' = NotSuspended
  /\ UNCHANGED <<closed, nEvents, feedInput, feedDocs, feedOut>>

\* req.on('close'): the client went away.
SSEClose(c) ==
  /\ Idle
  /\ conns[c].pc = "open"
  /\ Commit([Detach(Now, c) EXCEPT !.conns[c].pc = "closed"])
  /\ Tick /\ UNCHANGED <<suspended, closed, feedInput, feedDocs, feedOut>>

----------------------------------------------------------------------------
(* Events of the child process                                             *)

\* The chunks a process delivers on stdout in the gateway specification:
\* whole lines (a reply to id 1, to id 2, a notification), two lines at
\* once, and a line delivered in two parts.
SpecChunks ==
  { <<"{", "1", "}", NL>>, <<"{", "2", "}", NL>>, <<"{", "x", "}", NL>>,
    <<"{", "1", "}", NL, "{", "1", "x", "}", NL>>,
    <<"{", "1">>, <<"}", NL>> }

\* childProcess.stdout.on('data', data => this.handleStdioData(session, data))
\* The handler stays registered for the life of the child object: output
\* the process wrote before it ended can still be delivered after 'exit'
\* (the stdio streams may be open when 'exit' is emitted).
StdoutData(s, data) ==
  /\ Idle
  /\ Commit(HandleStdioData(Now, s, data))
  /\ Tick /\ UNCHANGED <<suspended, closed, feedInput, feedDocs, feedOut>>

\* childProcess.on('error') handler
OnError(w, s) == [w EXCEPT !.heap[s].connected = FALSE, !.heap[s].errored = TRUE]

\* childProcess.on('exit') handler: the entry stored under the Session's
\* id is deleted, whichever Session it is.
OnExit(w, s) ==
  [w EXCEPT !.heap[s].connected = FALSE, !.heap[s].proc = "exited",
            !.sessions[w.heap[s].id] = 0]

\* 'error': a failed spawn (reported on the next tick, so also between
\* createSession and the handler's continuation), a failed kill or a failed
\* send.  The process may or may not exit afterwards.
ProcessError(s) ==
  /\ Running
  /\ suspended # NotSuspended => suspended.session = s
  /\ heap[s].proc = "running"
  /\ ~heap[s].errored
  /\ Commit(OnError(Now, s))
  /\ Tick /\ UNCHANGED <<suspended, closed, feedInput, feedDocs, feedOut>>

ProcessExit(s) ==
  /\ Idle
  /\ heap[s].proc = "running"
  /\ Commit(OnExit(Now, s))
  /\ Tick /\ UNCHANGED <<suspended, closed, feedInput, feedDocs, feedOut>>

----------------------------------------------------------------------------
(* close() and the SIGINT handler of index.ts                              *)

\* for (const session of this.sessions.values()) session.process.kill(...)
\* this.sessions.clear()
Close(w) ==
  [w EXCEPT !.heap = [s \in 1..Len(w.heap) |->
                        IF \E sid \in SessionIds : w.sessions[sid] = s
                        THEN [w.heap[s] EXCEPT !.killed = TRUE]
                        ELSE w.heap[s]],
            !.sessions = [sid \in SessionIds |-> 0]]

\* await gateway.close(); process.exit(0): the gateway handles nothing
\* after it.
Shutdown ==
  /\ Idle
  /\ Commit(Close(Now))
  /\ closed' = TRUE
  /\ Tick /\ UNCHANGED <<suspended, feedInput, feedDocs, feedOut>>

----------------------------------------------------------------------------
(* The gateway specification                                               *)

Init ==
  /\ sessions = [sid \in SessionIds |-> 0]
  /\ heap = <<>>
  /\ posts = <<>>
  /\ conns = <<>>
  /\ timers = <<>>
  /\ suspended = NotSuspended
  /\ closed = FALSE
  /\ nEvents = 0
  /\ responses = <<>>
  /\ written = <<>>
  /\ dispatched = <<>>
  /\ pushed = <<>>
  /\ feedInput = <<>>
  /\ feedDocs = <<>>
  /\ feedOut = <<>>

\* The session ids requests carry, as <<query, header, body>>: none, or
\* "s1" in one of the three places.
SessionIdInputs ==
  { <<NoSessionId, NoSessionId, NoSessionId>>, <<"s1", NoSessionId, NoSessionId>>,
    <<NoSessionId, "s1", NoSessionId>>, <<NoSessionId, NoSessionId, "s1">> }

\* The messages requests carry, as <<id, method>>: two requests for the
\* backend, a notification, and the two intercepted methods.
MessageInputs ==
  { <<1, "tools/list">>, <<2, "tools/list">>, <<NoId, "tools/list">>,
    <<1, "logging/setLevel">>, <<2, "resources/list">> }

Next ==
  \/ \E sid \in SessionIdInputs, msg \in MessageInputs :
       HandleMessage(sid[1], sid[2], sid[3], msg[1], msg[2])
  \/ ResumeMessage
  \/ RequestTimeout
  \/ \E sid \in SessionIdInputs : HandleSSE(sid[1], sid[2])
  \/ ResumeSSE
  \/ \E c \in 1..Len(conns) : SSEClose(c)
  \/ \E s \in 1..Len(heap), data \in SpecChunks : StdoutData(s, data)
  \/ \E s \in 1..Len(heap) : ProcessError(s)
  \/ \E s \in 1..Len(heap) : ProcessExit(s)
  \/ Shutdown

Spec == Init /\ [][Next]_vars

----------------------------------------------------------------------------
(* The decoder specification: one Session with an attached SSE connection  *)
(* and a pending request for id 1 (the state after GET /mcp and a          *)
(* forwarded POST /mcp); its process prints some lines, which arrive cut   *)
(* into chunks at arbitrary byte positions.                                *)

\* The lines the backend prints, as bytes without the final newline:
\* documents with id 1, with id 2, without id, with a non-ASCII character,
\* with whitespace; and two malformed lines.
FeedLines ==
  { <<"{", "1", "}">>, <<"{", "2", "x", "}">>, <<"{", "x", "}">>,
    <<"{", "1", "C3", "A9", "}">>, <<SP, "{", SP, "x", "}">>,
    <<"{", "1">>, <<"x", "}">> }

\* Whether a printed line is a JSON document.
IsDocument(bytes) == CanParse(BufferToString(bytes))

RECURSIVE Stream(_)
\* The bytes the process writes for the lines it prints.
Stream(lines) ==
  IF lines = <<>> THEN <<>> ELSE Head(lines) \o <<NL>> \o Stream(Tail(lines))

FeedSession ==
  [NewSession(DefaultSessionId) EXCEPT
     !.connected = TRUE, !.sseResponse = 1, !.pendingRequests[1] = 1]

FeedInit ==
  /\ sessions = [sid \in SessionIds |-> IF sid = DefaultSessionId THEN 1 ELSE 0]
  /\ heap = <<FeedSession>>
  /\ posts = <<NewPost(1, 1, "tools/list")>>
  /\ conns = <<NewConn(1)>>
  /\ timers = <<1>>
  /\ suspended = NotSuspended
  /\ closed = FALSE
  /\ nEvents = 0
  /\ responses = <<>>
  /\ written = <<>>
  /\ dispatched = <<>>
  /\ pushed = <<>>
  /\ feedDocs \in UNION {[1..n -> FeedLines] : n \in 1..MaxDocs}
  /\ feedInput = Stream(feedDocs)
  /\ feedOut = <<>>

\* A stdout 'data' event carrying the next k bytes.
FeedChunk(k) ==
  /\ k \in 1..Len(feedInput)
  /\ LET w == HandleStdioData(Now, 1, SubSeq(feedInput, 1, k))
     IN /\ Commit(w)
        /\ feedOut' = feedOut \o [i \in 1..Len(w.dispatched) |->
                                     MessageOf(w.dispatched[i])]
  /\ feedInput' = SubSeq(feedInput, k + 1, Len(feedInput))
  /\ UNCHANGED <<suspended, closed, nEvents, feedDocs>>

FeedNext == \E k \in 1..(MaxDocs * 6) : FeedChunk(k)

FeedSpec == FeedInit /\ [][FeedNext]_vars

----------------------------------------------------------------------------
(* Properties of the request correlator                                    *)

\* The step removed the oldest timer: its setTimeout callback ran.
TimerFires == timers # <<>> /\ timers' = Tail(timers)

\* The responses the latest step wrote for forwarded post p.
ResponsesTo(p) == {i \in 1..Len(responses) : responses[i].post = p}

\* C1: the HTTP response of a forwarded request is written at most once,
\* with status 200, and its body is either a message the backend printed
\* in that step, carrying the request's id and unchanged, or the timeout
\* envelope with the request's id.
C1_ResolvedOnceByReplyOrTimeout ==
  /\ \A p \in 1..Len(posts) :
       /\ posts[p].writes <= 1
       /\ Cardinality(ResponsesTo(p)) <= 1
       /\ ResponsesTo(p) # {} => posts[p].writes = 1 /\ posts[p].pc = "done"
     \* still waiting, or resolved by a reply or by the timeout - not both
       /\ posts[p].writes = 0 <=> posts[p].pc = "waiting"
  /\ \A i \in 1..Len(responses) :
       LET r == responses[i]
       IN r.post # 0 =>
            /\ r.status = 200
            /\ r.id = posts[r.post].id
            /\ \/ r.body = ErrorBody(posts[r.post].id, "Request timeout")
               \/ \E j \in 1..Len(dispatched) :
                    /\ dispatched[j].session = posts[r.post].session
                    /\ dispatched[j].id = posts[r.post].id
                    /\ r.body = ReplyBody(MessageOf(dispatched[j]))

\* A run in which one forwarded request was answered by the backend's
\* reply and another by its timeout.
C1_Witness ==
  \E p, q \in 1..Len(posts) :
    /\ posts[p].by = "reply" /\ posts[p].writes = 1
    /\ posts[q].by = "error" /\ posts[q].writes = 1
    /\ \E i \in 1..Len(responses) :
         responses[i].post = q /\ responses[i].body.text = "Request timeout"

\* C2: every forwarded request is resolved at the latest when its own
\* timer fires: once the timer of a request has fired, its HTTP response
\* has been written.
C2_ResolvedWhenTimerFired ==
  \A p \in 1..Len(posts) : posts[p].timer = "fired" => posts[p].pc = "done"

\* C3: the timer of a request that its reply has already resolved is a
\* no-op when it fires: no pending table changes and no caller is resolved.
C3_LateTimerIsNoOp ==
  [][(TimerFires /\ posts[Head(timers)].by = "reply") =>
       /\ \A s \in 1..Len(heap) :
            heap'[s].pendingRequests = heap[s].pendingRequests
       /\ responses' = <<>>
       /\ \A p \in 1..Len(posts) : posts'[p].pc = posts[p].pc]_vars

----------------------------------------------------------------------------
(* Properties of the frame decoder (decoder specification)                 *)

\* The world the decoder specification starts in.
FeedWorld ==
  [sessions |-> [sid \in SessionIds |-> IF sid = DefaultSessionId THEN 1 ELSE 0],
   heap |-> <<FeedSession>>, posts |-> <<NewPost(1, 1, "tools/list")>>,
   conns |-> <<NewConn(1)>>, timers |-> <<1>>,
   responses |-> <<>>, written |-> <<>>, dispatched |-> <<>>, pushed |-> <<>>]

\* The world after the whole output arrived as one chunk.
OneChunk(lines) == HandleStdioData(FeedWorld, 1, Stream(lines))

\* C4: when the backend printed JSON documents only, then after the last
\* chunk the messages dispatched are exactly the documents, once each and
\* in order, and they and the carry-over buffer are what feeding the whole
\* output as one chunk gives - wherever the chunks were cut.
C4_ChunkingDoesNotMatter ==
  (feedInput = <<>> /\ \A i \in 1..Len(feedDocs) : IsDocument(feedDocs[i])) =>
     /\ feedOut = [i \in 1..Len(feedDocs) |-> JSONParse(BufferToString(feedDocs[i]))]
     /\ feedOut = [i \in 1..Len(OneChunk(feedDocs).dispatched) |->
                     MessageOf(OneChunk(feedDocs).dispatched[i])]
     /\ heap[1].messageBuffer = OneChunk(feedDocs).heap[1].messageBuffer

\* The part of C4 the decoder keeps: the same, for documents of ASCII
\* characters only.
C4_AsciiChunkingDoesNotMatter ==
  (/\ feedInput = <<>>
   /\ \A i \in 1..Len(feedDocs) :
        /\ IsDocument(feedDocs[i])
        /\ \A k \in 1..Len(feedDocs[i]) : feedDocs[i][k] \in AsciiBytes) =>
     /\ feedOut = [i \in 1..Len(feedDocs) |-> JSONParse(BufferToString(feedDocs[i]))]
     /\ heap[1].messageBuffer = <<>>

----------------------------------------------------------------------------
(* Properties of handleMessage                                             *)

\* The pending table of every Session is as before the step (empty for a
\* Session created by the step).
PendingUnchanged ==
  \A s \in 1..Len(heap') :
    heap'[s].pendingRequests =
      IF s <= Len(heap) THEN heap[s].pendingRequests ELSE [i \in Ids |-> 0]

\* C5 as stated: the response to a notification is always 202 with an
\* empty JSON body.
C5_NotificationAlways202 ==
  \A i \in 1..Len(responses) :
    (responses[i].verb = "POST" /\ responses[i].id = NoId) =>
       responses[i].status = 202 /\ responses[i].body = EmptyBody

\* C5, amended: a notification never becomes a waiting request and never
\* changes a pending table or arms a timer; its handler answers by itself:
\* 202 with an empty body after writing the message to the stdin of the
\* Session stored under its session id, or, when createSession throws,
\* 500 with the -32603 envelope and nothing written or stored.
C5_NotificationNeverWaits ==
  [][/\ \A p \in 1..Len(posts') : posts'[p].id # NoId
     /\ (suspended.kind = "post" /\ suspended.id = NoId /\ suspended' = NotSuspended)
          => \E i \in 1..Len(responses') : responses'[i].id = NoId
     /\ \A i \in 1..Len(responses') :
          LET r == responses'[i]
          IN (r.verb = "POST" /\ r.id = NoId) =>
               /\ PendingUnchanged /\ posts' = posts /\ timers' = timers
               /\ \/ /\ r.status = 202 /\ r.body = EmptyBody
                     /\ sessions'[r.sid] # 0
                     /\ written' = <<[session |-> sessions'[r.sid], id |-> NoId,
                                      method |-> r.method, registered |-> FALSE]>>
                  \/ /\ r.status = 500
                     /\ r.body = ErrorBody(NoId, "Failed to create session")
                     /\ written' = <<>>
                     /\ sessions' = sessions /\ heap' = heap]_vars

\* A notification was written to a process and acknowledged with 202.
C5_Witness ==
  \E i \in 1..Len(responses) :
    /\ responses[i].verb = "POST" /\ responses[i].id = NoId
    /\ responses[i].status = 202
    /\ Len(written) = 1 /\ written[1].id = NoId

\* C6: a request for logging/setLevel or resources/list is answered with
\* its fixed result and its id in every state of the session store, is
\* never written to a process and never becomes a waiting request.
C6_InterceptedAlwaysAnswered ==
  /\ \A p \in 1..Len(posts) : ~Intercepted(posts[p].id, posts[p].method)
  /\ \A i \in 1..Len(responses) :
       LET r == responses[i]
       IN (r.verb = "POST" /\ Intercepted(r.id, r.method)) =>
            /\ r.status = 200
            /\ r.body = ResultBody(r.id, InterceptResult(r.method))
            /\ written = <<>>

----------------------------------------------------------------------------
(* Properties of the SSE sink and of the session store                     *)

\* The connections attached to Session s, oldest first.
ConnsOf(cs, s) == {c \in 1..Len(cs) : cs[c].session = s}

\* Connection c was replaced as the sink of its Session.
Superseded(cs, c) == \E d \in ConnsOf(cs, cs[c].session) : d > c

\* C7: once a second SSE connection is attached to a Session, no frame is
\* written to the first one any more; the close of a replaced connection
\* leaves the sink as it is; and the newest connection of a Session, while
\* open, is its sink.
C7_ReplacedSinkGetsNothing ==
  [][/\ \A i \in 1..Len(pushed') :
          pushed'[i].conn <= Len(conns) => ~Superseded(conns, pushed'[i].conn)
     /\ \A c \in 1..Len(conns) :
          (/\ conns[c].pc = "open" /\ conns'[c].pc = "closed"
           /\ heap[conns[c].session].sseResponse # c)
            => heap'[conns[c].session].sseResponse = heap[conns[c].session].sseResponse
     /\ \A c \in 1..Len(conns') :
          (conns'[c].pc = "open" /\ ~Superseded(conns', c))
            => heap'[conns'[c].session].sseResponse = c]_vars

\* The first of two connections of a Session was closed after the second
\* was attached, and a backend message was then written to the second.
C7_Witness ==
  \E c, d \in 1..Len(conns) :
    /\ c < d /\ conns[c].session = conns[d].session
    /\ conns[c].pc = "closed" /\ conns[d].pc = "open"
    /\ heap[conns[d].session].sseResponse = d
    /\ \E i \in 1..Len(pushed) : pushed[i].conn = d /\ pushed[i].frame.kind = "data"

\* C8: whenever the process of a new Session could not be spawned - spawn
\* threw, or the child raised 'error' before createSession's caller went
\* on - the caller answers 500 'Failed to create session' and the Session
\* is not the one stored under the id.
C8_SpawnFailureGives500 ==
  [][(/\ suspended.kind # "none" /\ suspended' = NotSuspended /\ ~closed'
      /\ heap[suspended.session].errored)
       => /\ \E i \in 1..Len(responses') :
               /\ responses'[i].status = 500
               /\ responses'[i].body.text = "Failed to create session"
          /\ sessions'[suspended.sid] # suspended.session]_vars

\* C8, when spawn throws: a createSession that throws leaves the store and the Sessions as they
\* were, a lookup of the id still finds no connected Session, and the
\* caller gets status 500 - from handleMessage with the -32603 envelope.
C8_FailedCreationStoresNothing ==
  [][\A i \in 1..Len(responses') :
       LET r == responses'[i]
       IN r.body.text = "Failed to create session" =>
            /\ sessions' = sessions /\ heap' = heap
            /\ NeedsSession(heap', sessions', r.sid)
            /\ r.status = 500
            /\ r.verb = "POST" => r.body.code = InternalError /\ r.body.kind = "error"]_vars

\* handleMessage answered 500 because the session could not be created,
\* for an id under which a dead Session is stored.
C8_Witness ==
  \E i \in 1..Len(responses) :
    /\ responses[i].verb = "POST" /\ responses[i].status = 500
    /\ responses[i].body.text = "Failed to create session"
    /\ sessions[responses[i].sid] # 0
    /\ ~heap[sessions[responses[i].sid]].connected

\* C9: a request without a session id targets the default id; and while
\* the gateway runs, a Session whose process has neither exited nor raised
\* an error is the connected Session stored under its id, so that every
\* request for that id is served by its process and spawns no other.
C9_LiveSessionServesItsId ==
  /\ MessageSessionId(NoSessionId, NoSessionId, NoSessionId) = DefaultSessionId
  /\ SSESessionId(NoSessionId, NoSessionId) = DefaultSessionId
  /\ ~closed =>
       \A s \in 1..Len(heap) :
         (heap[s].proc = "running" /\ ~heap[s].errored)
           => sessions[heap[s].id] = s /\ heap[s].connected

\* The frames written to connection c by a step, and the frames of the
\* messages a step dispatched for Session s.
FramesTo(out, c) ==
  LET mine == SelectSeq(out, LAMBDA e : e.conn = c)
  IN [i \in 1..Len(mine) |-> mine[i].frame]
FramesFrom(log, s) ==
  LET mine == SelectSeq(log, LAMBDA d : d.session = s)
  IN [i \in 1..Len(mine) |-> DataFrame(MessageOf(mine[i]))]

\* C10: while a connection opened for session id X is open and no newer
\* connection was opened for X, every message of the process serving X
\* (the process of the Session stored under X) is written to it as one
\* data frame, in order.
C10_OpenConnectionGetsEveryMessage ==
  [][\A c \in 1..Len(conns) :
       LET X == heap[conns[c].session].id
       IN (/\ conns[c].pc = "open" /\ conns'[c].pc = "open"
           /\ ~\E d \in (c + 1)..Len(conns) : heap[conns[d].session].id = X
           /\ sessions[X] # 0
           /\ FramesFrom(dispatched', sessions[X]) # <<>>)
            => FramesTo(pushed', c) = FramesFrom(dispatched', sessions[X])]_vars

----------------------------------------------------------------------------
(* Properties of the timeout, of dispatch and of process exit              *)

\* The Session objects are as before the step, their pending tables aside.
SessionsKeptButPending ==
  /\ Len(heap') = Len(heap)
  /\ \A t \in 1..Len(heap) :
       [heap'[t] EXCEPT !.pendingRequests = heap[t].pendingRequests] = heap[t]

\* C11: the timer of request p changes nothing but p's own pending entry and
\* p's caller: the store, every Session's connected flag, process, sink and
\* buffer, every connection, every pending entry that is not p's and every
\* other request stay as they are, and nothing is written to a process or
\* to a sink.
C11_TimeoutTouchesOnlyItsEntry ==
  [][TimerFires =>
       LET p == Head(timers)
       IN /\ sessions' = sessions /\ conns' = conns
          /\ SessionsKeptButPending
          /\ \A t \in 1..Len(heap), k \in Ids :
               heap[t].pendingRequests[k] # p
                 => heap'[t].pendingRequests[k] = heap[t].pendingRequests[k]
          /\ \A q \in 1..Len(posts) : q # p => posts'[q] = posts[q]
          /\ written' = <<>> /\ pushed' = <<>>]_vars

\* The part of C11 the timer keeps: the same, where the pending entries
\* left alone are those under another Session or another id.
C11_TimeoutTouchesOnlyItsKey ==
  [][TimerFires =>
       LET p == Head(timers)
       IN /\ sessions' = sessions /\ conns' = conns
          /\ SessionsKeptButPending
          /\ \A t \in 1..Len(heap), k \in Ids :
               (t # posts[p].session \/ k # posts[p].id)
                 => heap'[t].pendingRequests[k] = heap[t].pendingRequests[k]
          /\ \A q \in 1..Len(posts) : q # p => posts'[q] = posts[q]
          /\ written' = <<>> /\ pushed' = <<>>]_vars

\* C12: whenever a request with an id is written to a process's stdin, the
\* Session's pending table already holds that id, and when the handler
\* returns - the earliest moment a reply can be dispatched - the entry is
\* that of the request just forwarded, which is waiting.
C12_RegisteredBeforeWritten ==
  [][\A i \in 1..Len(written') :
       LET e == written'[i]
       IN e.id # NoId =>
            /\ e.registered
            /\ heap'[e.session].pendingRequests[e.id] = Len(posts')
            /\ Len(posts') = Len(posts) + 1
            /\ posts'[Len(posts')] = NewPost(e.session, e.id, e.method)]_vars

\* A request with an id was written to stdin with its id registered.
C12_Witness ==
  \E i \in 1..Len(written) :
    /\ written[i].id # NoId /\ written[i].registered
    /\ heap[written[i].session].pendingRequests[written[i].id] = Len(posts)

\* The first message with id k among the messages a step dispatched.
FirstWithId(log, k) ==
  log[CHOOSE j \in 1..Len(log) :
        log[j].id = k /\ \A i \in 1..(j - 1) : log[i].id # k]

\* C13: for the messages a stdout event dispatches for Session s: every id
\* that had a pending entry and is carried by one of the messages has its
\* entry removed and its waiting caller answered once, with the first such
\* message; every other entry stays; every message, matched or not, is
\* written to the sink attached to s, in order, and to nothing when no sink
\* is attached; and nothing else changes but the buffer of s.
C13_BothDeliveryPaths ==
  [][dispatched' # <<>> =>
       LET s == dispatched'[1].session
       IN /\ \A j \in 1..Len(dispatched') : dispatched'[j].session = s
          /\ pushed' = IF heap[s].sseResponse = 0 THEN <<>>
                       ELSE [j \in 1..Len(dispatched') |->
                               [conn |-> heap[s].sseResponse,
                                frame |-> DataFrame(MessageOf(dispatched'[j]))]]
          /\ \A k \in Ids :
               LET p == heap[s].pendingRequests[k]
               IN IF p # 0 /\ \E j \in 1..Len(dispatched') : dispatched'[j].id = k
                  THEN /\ heap'[s].pendingRequests[k] = 0
                       /\ posts[p].pc = "waiting" /\ posts'[p].pc = "done"
                       /\ posts'[p].writes = 1
                       /\ \E i \in 1..Len(responses') :
                            /\ responses'[i].post = p
                            /\ responses'[i].body =
                                 ReplyBody(MessageOf(FirstWithId(dispatched', k)))
                            /\ \A i2 \in 1..Len(responses') :
                                 responses'[i2].post = p => i2 = i
                  ELSE heap'[s].pendingRequests[k] = p
          /\ \A i \in 1..Len(responses') :
               /\ responses'[i].post # 0
               /\ heap[s].pendingRequests[responses'[i].id] = responses'[i].post
          /\ \A q \in 1..Len(posts) :
               (\A k \in Ids : heap[s].pendingRequests[k] # q) => posts'[q] = posts[q]
          /\ Len(posts') = Len(posts)
          /\ sessions' = sessions /\ conns' = conns /\ timers' = timers
          /\ written' = <<>>
          /\ Len(heap') = Len(heap)
          /\ \A t \in 1..Len(heap) :
               IF t = s
               THEN [heap'[t] EXCEPT !.pendingRequests = heap[t].pendingRequests,
                                     !.messageBuffer = heap[t].messageBuffer] = heap[t]
               ELSE heap'[t] = heap[t]]_vars

\* One backend message resolved a waiting caller and was also written to
\* the sink of its Session.
C13_Witness ==
  \E i \in 1..Len(responses), j \in 1..Len(pushed) :
    /\ responses[i].post # 0 /\ responses[i].body.kind = "reply"
    /\ pushed[j].frame = DataFrame([id |-> responses[i].body.id,
                                    members |-> responses[i].body.members])
    /\ conns[pushed[j].conn].session = posts[responses[i].post].session

\* Some request of Session s with id k was resolved by its timeout.
TimedOut(s, k) ==
  \E p \in 1..Len(posts) :
    posts[p].session = s /\ posts[p].id = k /\ posts[p].by = "error"

\* The effect C14 names, for message d dispatched by the step: no caller is
\* answered with d's id, the pending entry under it and the requests that
\* timed out stay as they are, and d is written to the sink if one is
\* attached.
LateReplyOnlyReachesSink(d) ==
  /\ \A i \in 1..Len(responses') : responses'[i].id # d.id
  /\ heap'[d.session].pendingRequests[d.id] = heap[d.session].pendingRequests[d.id]
  /\ \A p \in 1..Len(posts) : posts[p].by = "error" => posts'[p] = posts[p]
  /\ heap[d.session].sseResponse # 0 =>
       \E j \in 1..Len(pushed') :
         pushed'[j] = [conn |-> heap[d.session].sseResponse,
                       frame |-> DataFrame(MessageOf(d))]

\* C14: a message carrying the id of a request of its Session that has
\* timed out resolves no caller and changes no pending entry, and is still
\* written to the sink.
C14_LateReplyResolvesNoCaller ==
  [][\A j \in 1..Len(dispatched') :
       LET d == dispatched'[j]
       IN (d.id # NoId /\ TimedOut(d.session, d.id)) => LateReplyOnlyReachesSink(d)]_vars

\* The part of C14 the correlator keeps: the same, when no newer request
\* with that id is waiting on the Session.
C14_LateReplyWithoutNewerRequest ==
  [][\A j \in 1..Len(dispatched') :
       LET d == dispatched'[j]
       IN (/\ d.id # NoId /\ TimedOut(d.session, d.id)
           /\ ~\E q \in 1..Len(posts) :
                 /\ posts[q].session = d.session /\ posts[q].id = d.id
                 /\ posts[q].pc = "waiting")
            => LateReplyOnlyReachesSink(d)]_vars

\* The process of Session s exits in the step.
Exits(s) == heap[s].proc = "running" /\ heap'[s].proc = "exited"

\* The exit handler itself: the Session is marked disconnected and no
\* Session is stored under its id, no Session is created, and no pending
\* entry, request, timer or response is touched.
ExitLeavesPending ==
  \A s \in 1..Len(heap) :
    Exits(s) =>
      /\ ~heap'[s].connected
      /\ sessions'[heap[s].id] = 0
      /\ Len(heap') = Len(heap)
      /\ \A t \in 1..Len(heap) : heap'[t].pendingRequests = heap[t].pendingRequests
      /\ posts' = posts /\ timers' = timers
      /\ responses' = <<>> /\ written' = <<>>

\* C15: the exit of a process marks its Session disconnected, removes it
\* from the store, starts no process and touches no pending entry; and
\* from then on a pending entry of that Session is removed only by the
\* timer of the request it belongs to, which answers that request with the
\* timeout error - or by output of the process that was still in the pipe
\* and carries the entry's id.
C15_ExitLeavesPendingToTimers ==
  [][/\ ExitLeavesPending
     /\ \A s \in 1..Len(heap), k \in Ids :
          LET p == heap[s].pendingRequests[k]
          IN (heap[s].proc = "exited" /\ p # 0 /\ heap'[s].pendingRequests[k] # p)
               => \/ /\ TimerFires /\ Head(timers) = p
                     /\ \E i \in 1..Len(responses') :
                          /\ responses'[i].post = p
                          /\ responses'[i].body = ErrorBody(k, "Request timeout")
                  \/ \E j \in 1..Len(dispatched') :
                       dispatched'[j].session = s /\ dispatched'[j].id = k]_vars

\* The part of C15 the exit handler keeps.
C15_ExitItselfLeavesPending == [][ExitLeavesPending]_vars

----------------------------------------------------------------------------
(* Properties of dead Sessions, of malformed lines and of isolation        *)

\* The connections the step attached.
Attached == (Len(conns) + 1)..Len(conns')

\* C16: a handler invoked while the Session stored under its id is dead
\* does not serve the request with that Session: a step that starts a
\* handler attaches no sink to, and writes no message to, a Session that
\* was disconnected when the handler started.
C16_DeadSessionIsReplaced ==
  [][suspended = NotSuspended =>
       /\ \A c \in Attached : heap[conns'[c].session].connected
       /\ \A i \in 1..Len(written') : heap[written'[i].session].connected]_vars

\* The part of C16 handleMessage keeps: it writes no message to a Session
\* that was disconnected when it started.
C16_NoWriteToDeadSession ==
  [][suspended = NotSuspended =>
       \A i \in 1..Len(written') : heap[written'[i].session].connected]_vars

\* The bytes the step delivered (decoder specification).
Delivered == SubSeq(feedInput, 1, Len(feedInput) - Len(feedInput'))

RECURSIVE ParseLines(_)
\* The messages of the lines that are dispatched: those that are not blank
\* and are JSON documents, in order.
ParseLines(lines) ==
  IF lines = <<>> THEN <<>>
  ELSE IF Trim(Head(lines)) # <<>> /\ CanParse(Head(lines))
       THEN <<JSONParse(Head(lines))>> \o ParseLines(Tail(lines))
       ELSE ParseLines(Tail(lines))

\* The characters of the printed lines, each line decoded as a whole.
Decoded(docs) == [i \in 1..Len(docs) |-> BufferToString(docs[i])]

\* Document m with every character outside ASCII left out.
AsciiPart(m) ==
  [id |-> m.id, members |-> SelectSeq(m.members, LAMBDA c : c \in AsciiBytes)]

\* C17: of the lines a chunk completes, the malformed ones are dropped and
\* all others are dispatched, once each and in order, whatever stands
\* before or after them; the buffer kept is what follows the last newline,
\* whether or not the lines before it were well-formed; connected and the
\* sink do not change, and a pending entry changes only for the id of a
\* dispatched message.  When the whole output has arrived, one message per
\* well-formed printed line has been dispatched, in order, with its id and
\* its ASCII characters, and the buffer is empty.
C17_MalformedLineIsSkipped ==
  [][\A lines \in {Split(heap[1].messageBuffer \o BufferToString(Delivered))} :
        /\ [j \in 1..Len(dispatched') |-> MessageOf(dispatched'[j])]
             = ParseLines(SubSeq(lines, 1, Len(lines) - 1))
        /\ \A j \in 1..Len(dispatched') : dispatched'[j].session = 1
        /\ pushed' = [j \in 1..Len(dispatched') |->
                        [conn |-> 1, frame |-> DataFrame(MessageOf(dispatched'[j]))]]
        /\ heap'[1].messageBuffer = lines[Len(lines)]
        /\ heap'[1].connected = heap[1].connected
        /\ heap'[1].sseResponse = heap[1].sseResponse
        /\ \A k \in Ids :
             heap'[1].pendingRequests[k] # heap[1].pendingRequests[k]
               => \E j \in 1..Len(dispatched') : dispatched'[j].id = k
        /\ feedInput' = <<>> =>
             /\ [i \in 1..Len(feedOut') |-> AsciiPart(feedOut'[i])]
                  = [i \in 1..Len(ParseLines(Decoded(feedDocs))) |->
                       AsciiPart(ParseLines(Decoded(feedDocs))[i])]
             /\ heap'[1].messageBuffer = <<>>]_vars

\* The backend printed a malformed line and then a JSON document; all of it
\* has arrived, the document was dispatched and the Session is as alive as
\* before.
C17_Witness ==
  /\ Len(feedDocs) = 2
  /\ ~IsDocument(feedDocs[1]) /\ IsDocument(feedDocs[2])
  /\ feedInput = <<>>
  /\ feedOut = <<JSONParse(BufferToString(feedDocs[2]))>>
  /\ dispatched # <<>>
  /\ heap[1].connected /\ heap[1].sseResponse = 1 /\ heap[1].messageBuffer = <<>>

\* The Session whose timer, connection close or process output the step
\* handles; 0 for every other step.
Owner ==
  IF TimerFires THEN posts[Head(timers)].session
  ELSE IF \E c \in 1..Len(conns) : conns[c].pc = "open" /\ conns'[c].pc = "closed"
  THEN conns[CHOOSE c \in 1..Len(conns) :
               conns[c].pc = "open" /\ conns'[c].pc = "closed"].session
  ELSE IF dispatched' # <<>> THEN dispatched'[1].session
  ELSE IF /\ Len(heap') = Len(heap)
          /\ \E t \in 1..Len(heap) : heap'[t].messageBuffer # heap[t].messageBuffer
  THEN CHOOSE t \in 1..Len(heap) : heap'[t].messageBuffer # heap[t].messageBuffer
  ELSE 0

\* C18: a timer, a connection close or process output of Session A leaves
\* every other Session object (pending table, sink, buffer, connected) and
\* every request of another Session as they are, answers only requests of
\* A and writes only to connections attached to A.
C18_SessionsAreIsolated ==
  [][Owner # 0 =>
       /\ Len(heap') = Len(heap)
       /\ \A B \in 1..Len(heap) : B # Owner => heap'[B] = heap[B]
       /\ \A q \in 1..Len(posts) : posts[q].session # Owner => posts'[q] = posts[q]
       /\ \A i \in 1..Len(responses') :
            responses'[i].post # 0 /\ posts[responses'[i].post].session = Owner
       /\ \A j \in 1..Len(pushed') : conns[pushed'[j].conn].session = Owner]_vars

\* Two Sessions each had a pending request with the same id; output of one
\* process answered its own request and the other is still pending.
C18_Witness ==
  \E p, q \in 1..Len(posts) :
    /\ posts[p].session # posts[q].session /\ posts[p].id = posts[q].id
    /\ posts[p].by = "reply"
    /\ \E i \in 1..Len(responses) : responses[i].post = p
    /\ posts[q].pc = "waiting"
    /\ heap[posts[q].session].pendingRequests[posts[q].id] = q

----------------------------------------------------------------------------
(* Properties of the session store                                         *)

\* C19: when the process of Session s exits and the Session stored under
\* the id of s is another one, that Session stays stored.
C19_ExitRemovesOnlyItsOwner ==
  [][\A s \in 1..Len(heap) :
       (Exits(s) /\ sessions[heap[s].id] # s)
         => sessions'[heap[s].id] = sessions[heap[s].id]]_vars

\* The part of C19 the exit handler keeps: the exit of the process of the
\* stored Session removes it, and the entries of other ids stay.
C19_ExitRemovesItsId ==
  [][\A s \in 1..Len(heap) :
       Exits(s) =>
         /\ sessions'[heap[s].id] = 0
         /\ \A sid \in SessionIds : sid # heap[s].id => sessions'[sid] = sessions[sid]]_vars

\* A process that was spawned, has not exited and has reported no error.
Live(s) == heap[s].proc = "running" /\ ~heap[s].errored

\* C20: every live process belongs to the Session stored under its session
\* id, so there is at most one per id; and after close() the store is empty
\* and every live process has been sent the termination signal.
C20_LiveProcessHasStoredOwner ==
  /\ \A s \in 1..Len(heap) :
       Live(s) => IF closed THEN heap[s].killed ELSE sessions[heap[s].id] = s
  /\ \A s, t \in 1..Len(heap) :
       (Live(s) /\ Live(t) /\ heap[s].id = heap[t].id) => s = t
  /\ closed => \A sid \in SessionIds : sessions[sid] = 0

\* The part of C20 close() keeps: it signals every stored Session's process
\* and empties the store.
C20_CloseKillsStoredSessions ==
  [][(~closed /\ closed') =>
       /\ \A sid \in SessionIds :
            /\ sessions'[sid] = 0
            /\ sessions[sid] # 0 => heap'[sessions[sid]].killed
       /\ Len(heap') = Len(heap)]_vars

====
